---- MODULE Spec2Model ----
(***************************************************************************)
(* A model of verify_spectral_law.py: a linear script that computes the    *)
(* resultant polynomials P_{m,n}(t) = Res_x(x^m - x - 1,                    *)
(* t^n - t*x^(n-1) - x^n), divides them by the golden polynomial           *)
(* t^2 - t - 1, takes the field norm of the remainder, and feeds           *)
(* comparisons to check(name, condition), which tallies PASS and FAIL.     *)
(*                                                                         *)
(* Python integers are unbounded.  TLC's integers are 32-bit and TLC stops *)
(* with an error when an operation overflows, so native integers are used  *)
(* where the values stay small (the coefficients of the resultants, loop   *)
(* indices, counters) and the BigInt representation below is used where    *)
(* they do not (quotients, remainders and norms).                          *)
(***************************************************************************)
EXTENDS Integers, Sequences, FiniteSets, TLC

\* The sequence f as an explicit tuple (TLC keeps [i \in 1..n |-> e] unevaluated).
Tuple(f) == f \o <<>>

----------------------------------------------------------------------------
(* Python int: sign and magnitude, the magnitude a little-endian sequence   *)
(* of limbs in 0..Base-1 without high zero limbs; zero is not negative.     *)
(* The representation is canonical: equal integers are equal values.        *)

Base == 10^4

RECURSIVE MagFromNat(_)
MagFromNat(n) == IF n = 0 THEN <<>> ELSE <<n % Base>> \o MagFromNat(n \div Base)

FromInt(i) == [neg |-> i < 0, mag |-> MagFromNat(IF i < 0 THEN -i ELSE i)]

BigZero == FromInt(0)

RECURSIVE MagStrip(_)
MagStrip(a) ==
  IF a # <<>> /\ a[Len(a)] = 0 THEN MagStrip(SubSeq(a, 1, Len(a) - 1)) ELSE a

\* -1, 0, 1 as |a| < |b|, |a| = |b|, |a| > |b|, comparing from limb i down.
RECURSIVE MagCmpFrom(_, _, _)
MagCmpFrom(a, b, i) ==
  IF i = 0 THEN 0
  ELSE IF a[i] < b[i] THEN -1
  ELSE IF a[i] > b[i] THEN 1
  ELSE MagCmpFrom(a, b, i - 1)

MagCmp(a, b) ==
  IF Len(a) < Len(b) THEN -1
  ELSE IF Len(a) > Len(b) THEN 1
  ELSE MagCmpFrom(a, b, Len(a))

Limb(a, i) == IF i <= Len(a) THEN a[i] ELSE 0

RECURSIVE MagAddFrom(_, _, _, _)
MagAddFrom(a, b, i, carry) ==
  IF i > Len(a) /\ i > Len(b)
  THEN (IF carry = 0 THEN <<>> ELSE <<carry>>)
  ELSE LET s == Limb(a, i) + Limb(b, i) + carry
       IN  <<s % Base>> \o MagAddFrom(a, b, i + 1, s \div Base)

MagAdd(a, b) == MagAddFrom(a, b, 1, 0)

\* |a| - |b| for |a| >= |b|.
RECURSIVE MagSubFrom(_, _, _, _)
MagSubFrom(a, b, i, borrow) ==
  IF i > Len(a) THEN <<>>
  ELSE LET d == a[i] - Limb(b, i) - borrow
       IN  IF d < 0 THEN <<d + Base>> \o MagSubFrom(a, b, i + 1, 1)
                    ELSE <<d>> \o MagSubFrom(a, b, i + 1, 0)

MagSub(a, b) == MagStrip(MagSubFrom(a, b, 1, 0))

\* |a| * d for one limb d, plus carry.
RECURSIVE MagMulLimb(_, _, _, _)
MagMulLimb(a, d, i, carry) ==
  IF i > Len(a) THEN (IF carry = 0 THEN <<>> ELSE <<carry>>)
  ELSE LET p == a[i] * d + carry
       IN  <<p % Base>> \o MagMulLimb(a, d, i + 1, p \div Base)

RECURSIVE MagMulFrom(_, _, _)
MagMulFrom(a, b, j) ==
  IF j > Len(b) THEN <<>>
  ELSE MagAdd(MagMulLimb(a, b[j], 1, 0), <<0>> \o MagMulFrom(a, b, j + 1))

MagMul(a, b) == MagStrip(MagMulFrom(a, b, 1))

BigNeg(x) == IF x.mag = <<>> THEN x ELSE [neg |-> ~x.neg, mag |-> x.mag]

BigAbs(x) == [neg |-> FALSE, mag |-> x.mag]

BigAdd(x, y) ==
  IF x.neg = y.neg THEN [neg |-> x.neg, mag |-> MagAdd(x.mag, y.mag)]
  ELSE LET c == MagCmp(x.mag, y.mag)
       IN  IF c = 0 THEN BigZero
           ELSE IF c > 0 THEN [neg |-> x.neg, mag |-> MagSub(x.mag, y.mag)]
           ELSE [neg |-> y.neg, mag |-> MagSub(y.mag, x.mag)]

BigSub(x, y) == BigAdd(x, BigNeg(y))

BigMul(x, y) ==
  LET m == MagMul(x.mag, y.mag)
  IN  IF m = <<>> THEN BigZero ELSE [neg |-> x.neg # y.neg, mag |-> m]

\* x < y
BigLess(x, y) ==
  IF x.neg # y.neg THEN x.neg
  ELSE IF x.neg THEN MagCmp(x.mag, y.mag) > 0
  ELSE MagCmp(x.mag, y.mag) < 0

BigLeq(x, y) == x = y \/ BigLess(x, y)

----------------------------------------------------------------------------
(* Polynomials in t with native integer coefficients, lowest degree first,  *)
(* without high zero coefficients (the zero polynomial is <<>>).  They are  *)
(* the coefficient ring Z[t] of the polynomials in x that resultant takes.  *)

RECURSIVE IPStrip(_)
IPStrip(p) ==
  IF p # <<>> /\ p[Len(p)] = 0 THEN IPStrip(SubSeq(p, 1, Len(p) - 1)) ELSE p

IPCoef(p, i) == IF i <= Len(p) THEN p[i] ELSE 0

IPAdd(p, q) ==
  IF p = <<>> THEN q
  ELSE IF q = <<>> THEN p
  ELSE IPStrip(Tuple([i \in 1..(IF Len(p) > Len(q) THEN Len(p) ELSE Len(q))
                        |-> IPCoef(p, i) + IPCoef(q, i)]))

IPNeg(p) == Tuple([i \in 1..Len(p) |-> -p[i]])

IPSub(p, q) == IPAdd(p, IPNeg(q))

IPScale(p, c) == IF c = 0 THEN <<>> ELSE Tuple([i \in 1..Len(p) |-> c * p[i]])

\* The part of the coefficient of t^(k-1) in p*q from the terms lo..hi of p.
RECURSIVE IPConv(_, _, _, _, _)
IPConv(p, q, k, lo, hi) ==
  IF lo = hi
  THEN (IF k + 1 - lo >= 1 /\ k + 1 - lo <= Len(q) THEN p[lo] * q[k + 1 - lo] ELSE 0)
  ELSE LET mid == (lo + hi) \div 2
       IN  IPConv(p, q, k, lo, mid) + IPConv(p, q, k, mid + 1, hi)

IPMul(p, q) ==
  IF p = <<>> \/ q = <<>> THEN <<>>
  ELSE IPStrip(Tuple([k \in 1..(Len(p) + Len(q) - 1) |-> IPConv(p, q, k, 1, Len(p))]))

\* t^k
IPMonomial(k) == Tuple([i \in 1..(k + 1) |-> IF i = k + 1 THEN 1 ELSE 0])

----------------------------------------------------------------------------
(* resultant(f, g, x) for f a monic polynomial in x with integer            *)
(* coefficients and g a polynomial in x over Z[t], each the sequence of its *)
(* coefficients in x, lowest degree first: Res_x(f, g) = lc(f)^deg(g) *     *)
(* PROD g(alpha) over the roots alpha of f, which for monic f is the        *)
(* determinant of the map "multiply by g" on Z[t][x]/(f) in the basis       *)
(* 1, x, ..., x^(m-1), m = deg(f).                                          *)

\* A faulty variant of Trinomial: x^m + x - 1, the sign of x slipped.
TrinomialPlusX(m) ==
  Tuple([i \in 1..(m + 1) |-> IF i = m + 1 THEN 1 ELSE IF i = 2 THEN 1
                                ELSE IF i = 1 THEN -1 ELSE 0])

\* x^m - x - 1 as its coefficients in x, lowest first (m >= 2).
Trinomial(m) ==
  Tuple([i \in 1..(m + 1) |-> IF i = m + 1 THEN 1 ELSE IF i <= 2 THEN -1 ELSE 0])

\* t^n - t*x^(n-1) - x^n as its coefficients in x, lowest first (n >= 2).
Companion(n) ==
  Tuple([i \in 1..(n + 1) |->
           IF i = n + 1 THEN <<-1>>
           ELSE IF i = n THEN <<0, -1>>
           ELSE IF i = 1 THEN IPMonomial(n)
           ELSE <<>>])

\* x * v modulo f for v in Z[x]/(f), the sequence of its m coefficients:
\* x^m = -(f[1] + f[2] x + ... + f[m] x^(m-1)).
MulX(f, v) ==
  Tuple([i \in 1..(Len(f) - 1) |->
           (IF i = 1 THEN 0 ELSE v[i - 1]) - v[Len(f) - 1] * f[i]])

\* <<1, x, ..., x^k>> modulo f
RECURSIVE Powers(_, _)
Powers(f, k) ==
  IF k = 0 THEN <<Tuple([i \in 1..(Len(f) - 1) |-> IF i = 1 THEN 1 ELSE 0])>>
  ELSE LET prev == Powers(f, k - 1) IN Append(prev, MulX(f, prev[k]))

\* p[lo] + ... + p[hi] for a sequence p of polynomials, by halves.
RECURSIVE IPSum(_, _, _)
IPSum(p, lo, hi) ==
  IF lo = hi THEN p[lo]
  ELSE LET mid == (lo + hi) \div 2
       IN  IPAdd(IPSum(p, lo, mid), IPSum(p, mid + 1, hi))

\* Column j of the multiplication matrix: x^(j-1) * g modulo f, the sum of
\* g[k] * x^(k-1+j-1) over the terms of g; pow is Powers(f, .).
Column(g, pow, j) ==
  Tuple([i \in 1..Len(pow[1]) |->
           IPSum(Tuple([k \in 1..Len(g) |-> IPScale(g[k], pow[k + j - 1][i])]),
                 1, Len(g))])

RemoveAt(s, i) == SubSeq(s, 1, i - 1) \o SubSeq(s, i + 1, Len(s))

\* Determinant of a square matrix (a sequence of columns) over Z[t], by
\* expansion along the first column.
RECURSIVE Det(_)
Det(M) ==
  IF Len(M) = 1 THEN M[1][1]
  ELSE LET term ==
             Tuple([i \in 1..Len(M) |->
                IF M[1][i] = <<>> THEN <<>>
                ELSE LET minor ==
                           Tuple([j \in 1..(Len(M) - 1) |-> RemoveAt(M[j + 1], i)])
                         cof == IPMul(M[1][i], Det(minor))
                     IN  IF i % 2 = 1 THEN cof ELSE IPNeg(cof)])
       IN  IF Len(term) = 0 THEN <<>> ELSE IPSum(term, 1, Len(M))

resultant(f, g) ==
  LET m == Len(f) - 1
      pow == Powers(f, Len(g) + m - 2)
  IN  Det(Tuple([j \in 1..m |-> Column(g, pow, j)]))

----------------------------------------------------------------------------
(* Poly objects in t over ZZ: BigInt coefficients, lowest degree first,     *)
(* without high zero coefficients, so that == on Poly is equality of values. *)

FromInts(s) == Tuple([i \in 1..Len(s) |-> FromInt(s[i])])

RECURSIVE BPStrip(_)
BPStrip(p) ==
  IF p # <<>> /\ p[Len(p)] = BigZero THEN BPStrip(SubSeq(p, 1, Len(p) - 1)) ELSE p

\* Poly(e, t) for an expression e with the integer coefficients s, lowest first.
Poly(s) == BPStrip(FromInts(s))

BPCoef(p, i) == IF i <= Len(p) THEN p[i] ELSE BigZero

BPAdd(p, q) ==
  BPStrip(Tuple([i \in 1..(IF Len(p) > Len(q) THEN Len(p) ELSE Len(q))
                   |-> BigAdd(BPCoef(p, i), BPCoef(q, i))]))

\* The part of the coefficient of t^(k-1) in p*q from the terms lo..hi of p.
RECURSIVE BPConv(_, _, _, _, _)
BPConv(p, q, k, lo, hi) ==
  IF lo = hi
  THEN (IF k + 1 - lo >= 1 /\ k + 1 - lo <= Len(q) THEN BigMul(p[lo], q[k + 1 - lo])
        ELSE BigZero)
  ELSE LET mid == (lo + hi) \div 2
       IN  BigAdd(BPConv(p, q, k, lo, mid), BPConv(p, q, k, mid + 1, hi))

BPMul(p, q) ==
  IF p = <<>> \/ q = <<>> THEN <<>>
  ELSE BPStrip(Tuple([k \in 1..(Len(p) + Len(q) - 1) |-> BPConv(p, q, k, 1, Len(p))]))

Reverse(s) == Tuple([i \in 1..Len(s) |-> s[Len(s) + 1 - i]])

\* Poly.all_coeffs(): every coefficient, highest degree first; [0] for zero.
all_coeffs(p) == IF p = <<>> THEN <<BigZero>> ELSE Reverse(p)

\* A faulty variant of golden: t**2 + t - 1, the sign of t slipped.
GoldenPlusT == Poly(<<-1, 1, 1>>)

\* golden = Poly(t**2 - t - 1, t)
golden == Poly(<<-1, -1, 1>>)

\* p * t^h
BPShift(p, h) == IF p = <<>> THEN <<>> ELSE Tuple([i \in 1..h |-> BigZero]) \o p

\* A faulty variant of div: the low terms of the divisor are ignored, so that
\* p is cut at t^deg(d) instead of reduced.
DivByLeadingTerm(p, d) ==
  [q |-> BPStrip(SubSeq(p, Len(d), Len(p))), r |-> BPStrip(SubSeq(p, 1, Len(d) - 1))]

\* div(p, d) for a monic divisor d: the quotient q and the remainder r of the
\* long division, p = d*q + r with deg(r) < deg(d).  With at most one
\* quotient term, q is the leading coefficient c of p and r = p - c*d;
\* otherwise the high part of p is divided first, for the high terms of q,
\* and then what it leaves together with the low h coefficients of p.
RECURSIVE div(_, _)
div(p, d) ==
  IF Len(p) < Len(d) THEN [q |-> <<>>, r |-> p]
  ELSE IF Len(p) = Len(d)
  THEN LET c == p[Len(p)]
       IN  [q |-> <<c>>,
            r |-> BPStrip(Tuple([i \in 1..(Len(p) - 1) |->
                                   BigSub(p[i], BigMul(c, d[i]))]))]
  ELSE LET h == (Len(p) - Len(d) + 1) \div 2
           hi == div(SubSeq(p, h + 1, Len(p)), d)
           lo == div(BPAdd(BPShift(hi.r, h), BPStrip(SubSeq(p, 1, h))), d)
       IN  [q |-> BPAdd(BPShift(hi.q, h), lo.q), r |-> lo.r]

\* A faulty variant of field_norm: -a**2 - a*b + b**2, the norm of a*phi - b.
FieldNormOfConjugate(a, b) ==
  BigSub(BigSub(BigMul(b, b), BigMul(a, b)), BigMul(a, a))

\* field_norm(a, b) = -a**2 + a*b + b**2
field_norm(a, b) == BigAdd(BigAdd(BigNeg(BigMul(a, a)), BigMul(a, b)), BigMul(b, b))

\* <<u(k), u(k+1)>> for the sequence u(0) = u0, u(1) = u1, u(k+2) = u(k+1) + u(k).
RECURSIVE Recurrence(_, _, _)
Recurrence(u0, u1, k) ==
  IF k = 0 THEN <<u0, u1>>
  ELSE LET prev == Recurrence(u0, u1, k - 1) IN <<prev[2], prev[1] + prev[2]>>

\* A faulty variant of fibonacci: the sequence 1, 1, 2, 3, ... from index 0.
FibonacciFromOne(k) == Recurrence(1, 1, k)[1]

fibonacci(k) == Recurrence(0, 1, k)[1]

lucas(k) == Recurrence(2, 1, k)[1]

\* (-1)**k
MinusOneTo(k) == IF k % 2 = 0 THEN 1 ELSE -1

\* Poly(resultant(Poly(x**m - x - 1, x), Poly(t**n - t*x**(n-1) - x**n, x), x), t)
P(m, n) == Poly(resultant(Trinomial(m), Companion(n)))

----------------------------------------------------------------------------
(* The script's state: its global names, the position pc of the statement   *)
(* to run next, what it has printed (stdout) and how it ended (exit).  A    *)
(* name not yet bound holds a placeholder (<<>>, 0, FALSE); quo is the name *)
(* _ that the loops bind the quotient to.  The values the                   *)
(* arbitrary-precision floating-point engine produces (the real roots, the  *)
(* logarithms and what is computed from them) are not represented: the      *)
(* checks that compare them take either outcome, and the lines that show    *)
(* them are printed without them.                                           *)

VARIABLES pc, PASS, FAIL, stdout, exit,
          P34_poly, q, r, reconstructed, P_at_1, P_at_neg1,
          n, m, P2n_poly, Pmn_poly, quo, rem, coeffs,
          a_actual, b_actual, a_pred, b_pred, norm_actual, norm_pred, ok,
          a, b, norm, norms, all_above_11

tally == <<PASS, FAIL>>

thm4 == <<P34_poly, q, r, reconstructed>>

prop3 == <<P_at_1, P_at_neg1>>

thm2 == <<P2n_poly, a_actual, b_actual, a_pred, b_pred, norm_actual, norm_pred, ok>>

thm6 == <<m, Pmn_poly, a, b, norm, norms, all_above_11>>

loop == <<n, quo, rem, coeffs>>

vars == <<pc, stdout, exit, tally, thm4, prop3, thm2, thm6, loop>>

\* expected_coeffs, highest degree first
expected_coeffs == FromInts(<<1, 0, 0, -3, -2, 0, 2, -1, -3, -1, 0, 1, -1>>)

\* range(3, 14), the n of Theorem 2
Thm2First == 3
Thm2Stop == 14

\* range(2, 9) and range(m + 1, 9), the m and n of Theorem 6
Thm6First == 2
Thm6Stop == 9

\* range(3, 7), the n of the consecutive triples of Corollary 8
Cor8First == 3
Cor8Stop == 7

\* "=" * 65
Rule == "================================================================="

Line(text) == [kind |-> "text", text |-> text]

\* print("=" * 65); print(title); print("=" * 65), after print() when blank
Header(blank, title) ==
  (IF blank THEN <<Line("")>> ELSE <<>>) \o <<Line(Rule), Line(title), Line(Rule)>>

\* A faulty variant of check: the failure is raised where it is found, so
\* that the statements up to the final raise are skipped.
CheckRaising(name, condition, next) ==
  /\ IF condition
     THEN PASS' = PASS + 1 /\ FAIL' = FAIL /\ pc' = next
     ELSE FAIL' = FAIL + 1 /\ PASS' = PASS /\ pc' = "exit"
  /\ stdout' = Append(stdout, [kind |-> "check", name |-> name, passed |-> condition])

\* A faulty variant of check: without the else, a failure counts as a pass too.
CheckWithoutElse(name, condition, next) ==
  /\ PASS' = PASS + 1
  /\ FAIL' = IF condition THEN FAIL ELSE FAIL + 1
  /\ stdout' = Append(stdout, [kind |-> "check", name |-> name, passed |-> condition])
  /\ pc' = next

\* check(name, condition): count the outcome, print the line for it (the mark
\* and the name; a failure is tagged) and return, so that the statement next
\* after the call runs.
check(name, condition, next) ==
  /\ IF condition
     THEN PASS' = PASS + 1 /\ FAIL' = FAIL
     ELSE FAIL' = FAIL + 1 /\ PASS' = PASS
  /\ stdout' = Append(stdout, [kind |-> "check", name |-> name, passed |-> condition])
  /\ pc' = next

\* The statement at pc = at is check(name, condition); the next one is at next.
\* A name is its text, and the n it is formatted with (0 when with none); the
\* other values formatted into it are left out.
CheckAt(at, name, condition, next) ==
  /\ pc = at
  /\ check(name, condition, next)
  /\ UNCHANGED <<exit, thm4, prop3, thm2, thm6, loop>>

Init ==
  /\ pc = "thm4_resultant"
  /\ PASS = 0 /\ FAIL = 0
  /\ stdout = <<>>
  /\ exit = [status |-> "running", message |-> ""]
  /\ P34_poly = <<>> /\ q = <<>> /\ r = <<>> /\ reconstructed = <<>>
  /\ P_at_1 = BigZero /\ P_at_neg1 = BigZero
  /\ n = 0 /\ m = 0
  /\ P2n_poly = <<>> /\ Pmn_poly = <<>> /\ quo = <<>> /\ rem = <<>> /\ coeffs = <<>>
  /\ a_actual = BigZero /\ b_actual = BigZero /\ a_pred = BigZero /\ b_pred = BigZero
  /\ norm_actual = BigZero /\ norm_pred = BigZero /\ ok = FALSE
  /\ a = BigZero /\ b = BigZero /\ norm = BigZero
  /\ norms = <<>>
  /\ all_above_11 = FALSE

----------------------------------------------------------------------------
(* THEOREM 4: Unit-Norm Remainder Identity for (3,4)                        *)

Thm4Resultant ==
  /\ pc = "thm4_resultant"
  /\ stdout' = stdout \o Header(FALSE, "THEOREM 4: Unit-Norm Remainder Identity for (3,4)")
  /\ P34_poly' = P(3, 4)
  /\ pc' = "thm4_check_coeffs"
  /\ UNCHANGED <<exit, tally, q, r, reconstructed, prop3, thm2, thm6, loop>>

Thm4CheckCoeffs(condition) ==
  CheckAt("thm4_check_coeffs", <<"P_{3,4}(t) coefficients match eq. (11)", 0>>,
          condition, "thm4_div")

CoeffsMatch == all_coeffs(P34_poly) = expected_coeffs

Thm4Div ==
  /\ pc = "thm4_div"
  /\ LET d == div(P34_poly, golden) IN q' = d.q /\ r' = d.r
  /\ pc' = "thm4_check_rem"
  /\ UNCHANGED <<stdout, exit, tally, P34_poly, reconstructed, prop3, thm2, thm6, loop>>

Thm4CheckRem(condition) ==
  CheckAt("thm4_check_rem", <<"Remainder = t - 1", 0>>, condition, "thm4_check_quo")

RemainderMatches == r = Poly(<<-1, 1>>)

Thm4CheckQuo(condition) ==
  CheckAt("thm4_check_quo", <<"Quotient = t^10 + t^9 + 2t^8 + 2t^4 + t^3", 0>>,
          condition, "thm4_check_norm")

QuotientMatches == q = Poly(<<0, 0, 0, 1, 2, 0, 0, 0, 2, 1, 1>>)

Thm4CheckNorm(condition) ==
  CheckAt("thm4_check_norm", <<"N_phi(t - 1) = -1", 0>>, condition, "thm4_reconstruct")

NormIsMinusOne == field_norm(FromInt(1), FromInt(-1)) = FromInt(-1)

\* reconstructed = golden * q + Poly(t - 1, t)
Thm4Reconstruct ==
  /\ pc = "thm4_reconstruct"
  /\ reconstructed' = BPAdd(BPMul(golden, q), Poly(<<-1, 1>>))
  /\ pc' = "thm4_check_recon"
  /\ UNCHANGED <<stdout, exit, tally, P34_poly, q, r, prop3, thm2, thm6, loop>>

Thm4CheckRecon(condition) ==
  CheckAt("thm4_check_recon",
          <<"Reconstruction: (t^2-t-1)*q(t) + (t-1) = P_{3,4}(t)", 0>>,
          condition, "prop3_eval")

ReconstructionMatches == reconstructed = P34_poly

----------------------------------------------------------------------------
(* PROPOSITION 3: Rational root check for P_{3,4}                           *)

\* s[lo] + ... + s[hi] for a sequence s of integers, by halves.
RECURSIVE BigSum(_, _, _)
BigSum(s, lo, hi) ==
  IF lo = hi THEN s[lo]
  ELSE LET mid == (lo + hi) \div 2
       IN  BigAdd(BigSum(s, lo, mid), BigSum(s, mid + 1, hi))

\* sum(s)
sum(s) == IF s = <<>> THEN BigZero ELSE BigSum(s, 1, Len(s))

\* A faulty variant of AlternatingSum: the exponent counted from 11, as for a
\* list of 12 coefficients.
AlternatingSumFrom11(s) ==
  sum(Tuple([j \in 1..Len(s) |-> BigMul(s[j], FromInt(MinusOneTo(11 - (j - 1))))]))

\* sum(c * ((-1)**(12 - i)) for i, c in enumerate(s)), i from 0
AlternatingSum(s) ==
  sum(Tuple([j \in 1..Len(s) |-> BigMul(s[j], FromInt(MinusOneTo(12 - (j - 1))))]))

Prop3Eval ==
  /\ pc = "prop3_eval"
  /\ stdout' = stdout \o Header(TRUE, "PROPOSITION 3: Rational root check for P_{3,4}")
  /\ P_at_1' = sum(expected_coeffs)
  /\ P_at_neg1' = AlternatingSum(expected_coeffs)
  /\ pc' = "prop3_check_at_1"
  /\ UNCHANGED <<exit, tally, thm4, thm2, thm6, loop>>

Prop3CheckAt1(condition) ==
  CheckAt("prop3_check_at_1", <<"P_{3,4}(1) = -7 (not zero)", 0>>,
          condition, "prop3_check_at_neg1")

At1Matches == P_at_1 = FromInt(-7)

Prop3CheckAtNeg1(condition) ==
  CheckAt("prop3_check_at_neg1", <<"P_{3,4}(-1) = 1 (not zero)", 0>>,
          condition, "prop3_roots")

AtNeg1Matches == P_at_neg1 = FromInt(1)

\* rho, r4, phi, prod34 and val are floating-point values.
Prop3Roots ==
  /\ pc = "prop3_roots"
  /\ pc' = "prop3_check_val"
  /\ UNCHANGED <<stdout, exit, tally, thm4, prop3, thm2, thm6, loop>>

\* fabs(val) < mpf('1e-45') is the condition.
Prop3CheckVal(condition) ==
  CheckAt("prop3_check_val", <<"|P_{3,4}(rho*r4)| < 10^-45", 0>>,
          condition, "thm2_for")

----------------------------------------------------------------------------
(* THEOREM 2: Fibonacci-Lucas Spectral Law (n = 3..13)                      *)

\* for n in range(3, 14): the first iteration
Thm2Enter ==
  /\ pc = "thm2_for"
  /\ stdout' = stdout \o Header(TRUE, "THEOREM 2: Fibonacci-Lucas Spectral Law (n = 3..13)")
  /\ IF Thm2First < Thm2Stop
     THEN n' = Thm2First /\ pc' = "thm2_resultant"
     ELSE n' = n /\ pc' = "thm6_for"
  /\ UNCHANGED <<exit, tally, thm4, prop3, thm2, thm6, quo, rem, coeffs>>

\* for n in range(3, 14): the later iterations and the end of the loop
Thm2Next ==
  /\ pc = "thm2_next"
  /\ IF n + 1 < Thm2Stop
     THEN n' = n + 1 /\ pc' = "thm2_resultant"
     ELSE n' = n /\ pc' = "thm6_for"
  /\ UNCHANGED <<stdout, exit, tally, thm4, prop3, thm2, thm6, quo, rem, coeffs>>

Thm2Resultant ==
  /\ pc = "thm2_resultant"
  /\ P2n_poly' = P(2, n)
  /\ pc' = "thm2_div"
  /\ UNCHANGED <<stdout, exit, tally, thm4, prop3, thm6, loop,
                 a_actual, b_actual, a_pred, b_pred, norm_actual, norm_pred, ok>>

\* _, rem = div(P2n_poly, golden)
Thm2Div ==
  /\ pc = "thm2_div"
  /\ LET d == div(P2n_poly, golden) IN quo' = d.q /\ rem' = d.r
  /\ pc' = "thm2_coeffs"
  /\ UNCHANGED <<stdout, exit, tally, thm4, prop3, thm2, thm6, n, coeffs>>

\* The remainder a*t + b from the coefficient list c of rem.
LeadingOrZero(c) == IF Len(c) = 2 THEN c[1] ELSE BigZero

ConstantTerm(c) == IF Len(c) = 2 THEN c[2] ELSE c[1]

Thm2Coeffs ==
  /\ pc = "thm2_coeffs"
  /\ coeffs' = all_coeffs(rem)
  /\ a_actual' = LeadingOrZero(all_coeffs(rem))
  /\ b_actual' = ConstantTerm(all_coeffs(rem))
  /\ pc' = "thm2_predict"
  /\ UNCHANGED <<stdout, exit, tally, thm4, prop3, thm6, n, quo, rem,
                 P2n_poly, a_pred, b_pred, norm_actual, norm_pred, ok>>

\* a_pred = -fibonacci(2*n) + (-1)**(n+1)
APred(k) == FromInt(-fibonacci(2 * k) + MinusOneTo(k + 1))

\* b_pred = -fibonacci(2*n - 1)
BPred(k) == FromInt(-fibonacci(2 * k - 1))

\* norm_pred = (-1)**(n+1) * lucas(2*n - 1)
NormPred(k) == FromInt(MinusOneTo(k + 1) * lucas(2 * k - 1))

Thm2Predict ==
  /\ pc = "thm2_predict"
  /\ a_pred' = APred(n)
  /\ b_pred' = BPred(n)
  /\ norm_actual' = field_norm(a_actual, b_actual)
  /\ norm_pred' = NormPred(n)
  /\ ok' = (a_actual = APred(n) /\ b_actual = BPred(n)
            /\ field_norm(a_actual, b_actual) = NormPred(n))
  /\ pc' = "thm2_check"
  /\ UNCHANGED <<stdout, exit, tally, thm4, prop3, thm6, loop,
                 P2n_poly, a_actual, b_actual>>

\* f"n={n:2d}: a={a_actual:>6d} b={b_actual:>6d}  N={norm_actual:>8d} = ...", ok
Thm2Check(condition) ==
  CheckAt("thm2_check", <<"n: a b N = (-1)^(n+1)*L_(2n-1)", n>>, condition, "thm2_next")

----------------------------------------------------------------------------
(* THEOREM 6: Uniqueness - all pairs 2 <= m < n <= 8                        *)

\* norms = {}; for m in range(2, 9): the first iteration
Thm6Enter ==
  /\ pc = "thm6_for"
  /\ stdout' = stdout \o Header(TRUE, "THEOREM 6: Uniqueness - all pairs 2 <= m < n <= 8")
  /\ norms' = <<>>
  /\ IF Thm6First < Thm6Stop
     THEN m' = Thm6First /\ pc' = "thm6_for_n"
     ELSE m' = m /\ pc' = "thm6_check_34"
  /\ UNCHANGED <<exit, tally, thm4, prop3, thm2, loop, Pmn_poly, a, b, norm, all_above_11>>

\* for m in range(2, 9): the later iterations and the end of the loop
Thm6Next ==
  /\ pc = "thm6_next"
  /\ IF m + 1 < Thm6Stop
     THEN m' = m + 1 /\ pc' = "thm6_for_n"
     ELSE m' = m /\ pc' = "thm6_check_34"
  /\ UNCHANGED <<stdout, exit, tally, thm4, prop3, thm2, loop,
                 Pmn_poly, a, b, norm, norms, all_above_11>>

\* for n in range(m + 1, 9): the first iteration
Thm6InnerEnter ==
  /\ pc = "thm6_for_n"
  /\ IF m + 1 < Thm6Stop
     THEN n' = m + 1 /\ pc' = "thm6_resultant"
     ELSE n' = n /\ pc' = "thm6_next"
  /\ UNCHANGED <<stdout, exit, tally, thm4, prop3, thm2, thm6, quo, rem, coeffs>>

\* for n in range(m + 1, 9): the later iterations and the end of the loop
Thm6InnerNext ==
  /\ pc = "thm6_next_n"
  /\ IF n + 1 < Thm6Stop
     THEN n' = n + 1 /\ pc' = "thm6_resultant"
     ELSE n' = n /\ pc' = "thm6_next"
  /\ UNCHANGED <<stdout, exit, tally, thm4, prop3, thm2, thm6, quo, rem, coeffs>>

Thm6Resultant ==
  /\ pc = "thm6_resultant"
  /\ Pmn_poly' = P(m, n)
  /\ pc' = "thm6_div"
  /\ UNCHANGED <<stdout, exit, tally, thm4, prop3, thm2, loop,
                 m, a, b, norm, norms, all_above_11>>

\* _, rem = div(Pmn_poly, golden)
Thm6Div ==
  /\ pc = "thm6_div"
  /\ LET d == div(Pmn_poly, golden) IN quo' = d.q /\ rem' = d.r
  /\ pc' = "thm6_norm"
  /\ UNCHANGED <<stdout, exit, tally, thm4, prop3, thm2, thm6, n, coeffs>>

\* norms[(m, n)] = v
Store(d, k, v) == [x \in (DOMAIN d) \cup {k} |-> IF x = k THEN v ELSE d[x]]

Thm6Norm ==
  /\ pc = "thm6_norm"
  /\ LET c == all_coeffs(rem)
         a2 == LeadingOrZero(c)
         b2 == ConstantTerm(c)
     IN  /\ coeffs' = c
         /\ a' = a2
         /\ b' = b2
         /\ norm' = field_norm(a2, b2)
         /\ norms' = Store(norms, <<m, n>>, field_norm(a2, b2))
  /\ pc' = "thm6_print"
  /\ UNCHANGED <<stdout, exit, tally, thm4, prop3, thm2, n, quo, rem,
                 m, Pmn_poly, all_above_11>>

\* rm, rn and prod are floating-point values; the line shows m, n, a, b, norm
\* and the tag " *** UNIT ***" if abs(norm) == 1.
Thm6Print ==
  /\ pc = "thm6_print"
  /\ stdout' = Append(stdout, [kind |-> "pair", m |-> m, n |-> n, a |-> a, b |-> b,
                               N |-> norm, unit |-> BigAbs(norm) = FromInt(1)])
  /\ pc' = "thm6_next_n"
  /\ UNCHANGED <<exit, tally, thm4, prop3, thm2, thm6, loop>>

Thm6Check34(condition) ==
  CheckAt("thm6_check_34", <<"(3,4) has norm -1", 0>>, condition, "thm6_check_only")

Norm34IsMinusOne == norms[<<3, 4>>] = FromInt(-1)

Thm6CheckOnly(condition) ==
  CheckAt("thm6_check_only", <<"(3,4) is the ONLY unit norm", 0>>,
          condition, "thm6_check_min")

\* the keys of d whose value has absolute value 1
UnitKeys(d) == {k \in DOMAIN d : BigAbs(d[k]) = FromInt(1)}

OneUnitNorm == Cardinality(UnitKeys(norms)) = 1

Thm6CheckMin(condition) ==
  CheckAt("thm6_check_min", <<"Minimum non-unit |norm| = 11 at (2,3)", 0>>,
          condition, "thm6_check_23")

\* min(abs(v) for v in d.values() if abs(v) > 1)
MinNonUnit(d) ==
  LET big == {BigAbs(d[k]) : k \in {x \in DOMAIN d : BigLess(FromInt(1), BigAbs(d[x]))}}
  IN  CHOOSE v \in big : \A w \in big : BigLeq(v, w)

MinNonUnitIs11 == MinNonUnit(norms) = FromInt(11)

Thm6Check23(condition) ==
  CheckAt("thm6_check_23", <<"|N(P_{2,3})| = 11 = L_5", 0>>, condition, "thm6_all_above")

Norm23Is11 == BigAbs(norms[<<2, 3>>]) = FromInt(11)

\* all(abs(v) >= 11 for k, v in d.items() if k != (3, 4))
AllAbove11(d) == \A k \in (DOMAIN d) \ {<<3, 4>>} : BigLeq(FromInt(11), BigAbs(d[k]))

Thm6AllAbove ==
  /\ pc = "thm6_all_above"
  /\ all_above_11' = AllAbove11(norms)
  /\ pc' = "thm6_check_above"
  /\ UNCHANGED <<stdout, exit, tally, thm4, prop3, thm2, loop,
                 m, Pmn_poly, a, b, norm, norms>>

Thm6CheckAbove(condition) ==
  CheckAt("thm6_check_above", <<"All (m,n) != (3,4) have |norm| >= 11", 0>>,
          condition, "cor8_roots")

----------------------------------------------------------------------------
(* COROLLARY 8: Entropy Stacking; NUMERICAL SUMMARY; the final report       *)

\* roots, h2, h3, h4, surplus and pct are floating-point values.
Cor8Roots ==
  /\ pc = "cor8_roots"
  /\ stdout' = stdout \o Header(TRUE, "COROLLARY 8: Entropy Stacking")
  /\ pc' = "cor8_check_pct"
  /\ UNCHANGED <<exit, tally, thm4, prop3, thm2, thm6, loop>>

\* abs(pct - 0.115) < 0.001 is the condition.
Cor8CheckPct(condition) ==
  CheckAt("cor8_check_pct", <<"h2 - (h3 + h4) = % of h2 (expect ~0.115%)", 0>>,
          condition, "cor8_for")

\* for n in range(3, 7): the first iteration
Cor8Enter ==
  /\ pc = "cor8_for"
  /\ IF Cor8First < Cor8Stop
     THEN n' = Cor8First /\ pc' = "cor8_deficit"
     ELSE n' = n /\ pc' = "summary"
  /\ UNCHANGED <<stdout, exit, tally, thm4, prop3, thm2, thm6, quo, rem, coeffs>>

\* for n in range(3, 7): the later iterations and the end of the loop
Cor8Next ==
  /\ pc = "cor8_next"
  /\ IF n + 1 < Cor8Stop
     THEN n' = n + 1 /\ pc' = "cor8_deficit"
     ELSE n' = n /\ pc' = "summary"
  /\ UNCHANGED <<stdout, exit, tally, thm4, prop3, thm2, thm6, quo, rem, coeffs>>

\* hn, hn1, hn2, diff and deficit_pct are floating-point values.
Cor8Deficit ==
  /\ pc = "cor8_deficit"
  /\ pc' = "cor8_check_deficit"
  /\ UNCHANGED <<stdout, exit, tally, thm4, prop3, thm2, thm6, loop>>

\* deficit_pct > 25 is the condition.
Cor8CheckDeficit(condition) ==
  CheckAt("cor8_check_deficit", <<"n: hn-(hn1+hn2) = (% of hn, expect > 25%)", n>>,
          condition, "cor8_next")

\* The seven lines of the numerical summary, each a label and a floating-point value.
Summary ==
  /\ pc = "summary"
  /\ stdout' = stdout \o Header(TRUE, "NUMERICAL SUMMARY")
                      \o <<Line("  rho       = "), Line("  r4        = "),
                           Line("  rho * r4  = "), Line("  phi       = "),
                           Line("  phi - rho*r4 = "), Line("  Relative gap = "),
                           Line("  q(rho*r4) = ")>>
  /\ pc' = "tally"
  /\ UNCHANGED <<exit, tally, thm4, prop3, thm2, thm6, loop>>

\* f"ALL {PASS} CHECKS PASSED" or f"{FAIL} CHECKS FAILED out of {PASS + FAIL}"
Banner ==
  IF FAIL = 0
  THEN "ALL " \o ToString(PASS) \o " CHECKS PASSED"
  ELSE ToString(FAIL) \o " CHECKS FAILED out of " \o ToString(PASS + FAIL)

Tally ==
  /\ pc = "tally"
  /\ stdout' = stdout \o <<Line(""), Line(Rule), [kind |-> "tally", text |-> Banner],
                           Line(Rule)>>
  /\ pc' = "exit"
  /\ UNCHANGED <<exit, tally, thm4, prop3, thm2, thm6, loop>>

\* A faulty variant of Exit: the script ends without the raise.
ExitWithoutRaise ==
  /\ pc = "exit"
  /\ exit' = [status |-> "normal", message |-> ""]
  /\ pc' = "done"
  /\ UNCHANGED <<stdout, tally, thm4, prop3, thm2, thm6, loop>>

\* if FAIL > 0: raise AssertionError(f"{FAIL} checks failed"); the script ends.
Exit ==
  /\ pc = "exit"
  /\ exit' = IF FAIL > 0
             THEN [status |-> "AssertionError", message |-> ToString(FAIL) \o " checks failed"]
             ELSE [status |-> "normal", message |-> ""]
  /\ pc' = "done"
  /\ UNCHANGED <<stdout, tally, thm4, prop3, thm2, thm6, loop>>

----------------------------------------------------------------------------
(* The statements that compute, and the script with each check's condition  *)
(* as the code computes it.                                                 *)

Compute ==
  \/ Thm4Resultant \/ Thm4Div \/ Thm4Reconstruct
  \/ Prop3Eval \/ Prop3Roots
  \/ Thm2Enter \/ Thm2Next \/ Thm2Resultant \/ Thm2Div \/ Thm2Coeffs \/ Thm2Predict
  \/ Thm6Enter \/ Thm6Next \/ Thm6InnerEnter \/ Thm6InnerNext
  \/ Thm6Resultant \/ Thm6Div \/ Thm6Norm \/ Thm6Print \/ Thm6AllAbove
  \/ Cor8Roots \/ Cor8Enter \/ Cor8Next \/ Cor8Deficit
  \/ Summary \/ Tally \/ Exit

ExactChecks ==
  \/ Thm4CheckCoeffs(CoeffsMatch)
  \/ Thm4CheckRem(RemainderMatches)
  \/ Thm4CheckQuo(QuotientMatches)
  \/ Thm4CheckNorm(NormIsMinusOne)
  \/ Thm4CheckRecon(ReconstructionMatches)
  \/ Prop3CheckAt1(At1Matches)
  \/ Prop3CheckAtNeg1(AtNeg1Matches)
  \/ Thm2Check(ok)
  \/ Thm6Check34(Norm34IsMinusOne)
  \/ Thm6CheckOnly(OneUnitNorm)
  \/ Thm6CheckMin(MinNonUnitIs11)
  \/ Thm6Check23(Norm23Is11)
  \/ Thm6CheckAbove(all_above_11)

FloatChecks ==
  \E condition \in BOOLEAN :
    \/ Prop3CheckVal(condition)
    \/ Cor8CheckPct(condition)
    \/ Cor8CheckDeficit(condition)

Next == Compute \/ ExactChecks \/ FloatChecks

Spec == Init /\ [][Next]_vars

----------------------------------------------------------------------------
(* The script with the condition of every check an input: check is called   *)
(* where the script calls it, with either boolean, in runs where at most    *)
(* MaxFaults of the conditions are false.                                   *)

MaxFaults == 1

AnyChecks ==
  \E condition \in BOOLEAN :
    /\ condition \/ FAIL < MaxFaults
    /\ \/ Thm4CheckCoeffs(condition)
       \/ Thm4CheckRem(condition)
       \/ Thm4CheckQuo(condition)
       \/ Thm4CheckNorm(condition)
       \/ Thm4CheckRecon(condition)
       \/ Prop3CheckAt1(condition)
       \/ Prop3CheckAtNeg1(condition)
       \/ Prop3CheckVal(condition)
       \/ Thm2Check(condition)
       \/ Thm6Check34(condition)
       \/ Thm6CheckOnly(condition)
       \/ Thm6CheckMin(condition)
       \/ Thm6Check23(condition)
       \/ Thm6CheckAbove(condition)
       \/ Cor8CheckPct(condition)
       \/ Cor8CheckDeficit(condition)

NextAny == Compute \/ AnyChecks

SpecAny == Init /\ [][NextAny]_vars

----------------------------------------------------------------------------
(* What the runs are checked against.  A check line of stdout is told by    *)
(* its kind; the lines of one check by the text of its name.                *)

IsCheck(l) == l.kind = "check"

CheckLines == SelectSeq(stdout, IsCheck)

\* The positions in stdout of the lines of the checks named by text.
LinesOf(text) ==
  {i \in 1..Len(stdout) : stdout[i].kind = "check" /\ stdout[i].name[1] = text}

\* Every check named by text that has run was passed with a true condition.
Passed(text) == \A i \in LinesOf(text) : stdout[i].passed

\* The value of the polynomial p at x, by Horner's rule from the coefficient i up.
RECURSIVE EvalFrom(_, _, _)
EvalFrom(p, x, i) ==
  IF i > Len(p) THEN BigZero ELSE BigAdd(p[i], BigMul(x, EvalFrom(p, x, i + 1)))

Eval(p, x) == EvalFrom(p, x, 1)

\* t^2 - t - 1, written out
GoldenPolynomial == <<FromInt(-1), FromInt(-1), FromInt(1)>>

\* The polynomial a*t + b
Linear(a1, b1) == BPStrip(<<b1, a1>>)

Thm4BeforeDiv == {"thm4_resultant", "thm4_check_coeffs", "thm4_div"}

Thm4Section ==
  Thm4BeforeDiv \cup {"thm4_check_rem", "thm4_check_quo", "thm4_check_norm",
                      "thm4_reconstruct", "thm4_check_recon"}

AfterThm6Loop ==
  {"thm6_check_34", "thm6_check_only", "thm6_check_min", "thm6_check_23",
   "thm6_all_above", "thm6_check_above", "cor8_roots", "cor8_check_pct", "cor8_for",
   "cor8_deficit", "cor8_check_deficit", "cor8_next", "summary", "tally", "exit", "done"}

\* The pairs (m, n) with 2 <= m < n <= 8
AllPairs == {k \in (2..8) \X (2..8) : k[1] < k[2]}

\* C1: for every n in 3..13 the remainder of P_{2,n}(t) modulo t^2 - t - 1 is
\* a*t + b with a = -Fib(2n) + (-1)^(n+1) and b = -Fib(2n-1), its field norm
\* -a^2 + a*b + b^2 is (-1)^(n+1) * Lucas(2n-1), and each of the 11 checks of
\* Theorem 2 is passed with a true condition.
C1_SpectralLaw ==
  /\ pc = "thm2_check" =>
       /\ n \in 3..13
       /\ BPAdd(BPMul(GoldenPolynomial, quo), rem) = P(2, n)
       /\ rem = Linear(a_actual, b_actual)
       /\ a_actual = FromInt(-fibonacci(2 * n) + MinusOneTo(n + 1))
       /\ b_actual = FromInt(-fibonacci(2 * n - 1))
       /\ field_norm(a_actual, b_actual) = FromInt(MinusOneTo(n + 1) * lucas(2 * n - 1))
       /\ norm_actual = field_norm(a_actual, b_actual)
       /\ ok
  /\ Passed("n: a b N = (-1)^(n+1)*L_(2n-1)")
  /\ pc = "thm6_for" =>
       {stdout[i].name[2] : i \in LinesOf("n: a b N = (-1)^(n+1)*L_(2n-1)")} = 3..13

\* The last check of Theorem 2, n = 13, has just been passed: a = -121392,
\* b = -75025 and N = 167761 = Lucas(25).
C1_Witness ==
  /\ pc = "thm2_next" /\ n = 13
  /\ rem = Linear(FromInt(-121392), FromInt(-75025))
  /\ norm_actual = FromInt(167761)
  /\ stdout[Len(stdout)] = [kind |-> "check", passed |-> TRUE,
                            name |-> <<"n: a b N = (-1)^(n+1)*L_(2n-1)", 13>>]

\* C2: dividing P_{3,4}(t) by t^2 - t - 1 gives the remainder t - 1 and the
\* quotient t^10 + t^9 + 2t^8 + 2t^4 + t^3, and the field norm of that
\* remainder, field_norm(1, -1), is -1.
C2_UnitNormRemainder ==
  pc \notin Thm4BeforeDiv =>
    /\ P34_poly = P(3, 4)
    /\ r = Linear(FromInt(1), FromInt(-1))
    /\ q = FromInts(<<0, 0, 0, 1, 2, 0, 0, 0, 2, 1, 1>>)
    /\ BPAdd(BPMul(GoldenPolynomial, q), r) = P34_poly
    /\ field_norm(FromInt(1), FromInt(-1)) = FromInt(-1)
    /\ Passed("Remainder = t - 1")
    /\ Passed("Quotient = t^10 + t^9 + 2t^8 + 2t^4 + t^3")
    /\ Passed("N_phi(t - 1) = -1")

\* The division of Theorem 4 is done and its three checks have just been passed.
C2_Witness ==
  /\ pc = "thm4_reconstruct"
  /\ r = Linear(FromInt(1), FromInt(-1))
  /\ Len(q) = 11
  /\ LinesOf("N_phi(t - 1) = -1") # {}

\* C3: among the pairs (m, n) with 2 <= m < n <= 8, norms[(m, n)] being the
\* field norm of the remainder of P_{m,n}(t) modulo t^2 - t - 1, exactly one
\* has |norm| = 1: it is (3,4), with norm -1; every other pair has
\* |norm| >= 11, and 11 = Lucas(5) is attained at (2,3).
C3_Uniqueness ==
  /\ pc = "thm6_print" =>
       /\ BPAdd(BPMul(GoldenPolynomial, quo), rem) = P(m, n)
       /\ rem = Linear(a, b)
       /\ <<m, n>> \in DOMAIN norms
       /\ norms[<<m, n>>] = field_norm(a, b)
  /\ pc \in AfterThm6Loop =>
       /\ DOMAIN norms = AllPairs
       /\ {k \in AllPairs : BigAbs(norms[k]) = FromInt(1)} = {<<3, 4>>}
       /\ norms[<<3, 4>>] = FromInt(-1)
       /\ \A k \in AllPairs \ {<<3, 4>>} : BigLeq(FromInt(11), BigAbs(norms[k]))
       /\ BigAbs(norms[<<2, 3>>]) = FromInt(11)
       /\ lucas(5) = 11
  /\ Passed("(3,4) has norm -1")
  /\ Passed("(3,4) is the ONLY unit norm")
  /\ Passed("Minimum non-unit |norm| = 11 at (2,3)")
  /\ Passed("|N(P_{2,3})| = 11 = L_5")
  /\ Passed("All (m,n) != (3,4) have |norm| >= 11")

\* The 21 norms are stored and the five checks of Theorem 6 have been passed.
C3_Witness ==
  /\ pc = "cor8_roots"
  /\ Cardinality(DOMAIN norms) = 21
  /\ norms[<<3, 4>>] = FromInt(-1)
  /\ all_above_11
  /\ LinesOf("All (m,n) != (3,4) have |norm| >= 11") # {}

\* C4: for every pair the script processes, (3,4) in Theorem 4, (2,n) for
\* n = 3..13 in Theorem 2 and 2 <= m < n <= 8 in Theorem 6, the quotient and
\* the remainder that div returns satisfy deg(remainder) < 2 and
\* (t^2 - t - 1) * quotient + remainder = P_{m,n}(t), coefficient by coefficient.
C4_Reconstruction ==
  /\ pc \notin Thm4BeforeDiv =>
       /\ Len(r) <= 2
       /\ BPAdd(BPMul(GoldenPolynomial, q), r) = P34_poly
  /\ pc = "thm2_coeffs" =>
       /\ n \in 3..13
       /\ P2n_poly = P(2, n)
       /\ Len(rem) <= 2
       /\ BPAdd(BPMul(GoldenPolynomial, quo), rem) = P2n_poly
  /\ pc = "thm6_norm" =>
       /\ <<m, n>> \in AllPairs
       /\ Pmn_poly = P(m, n)
       /\ Len(rem) <= 2
       /\ BPAdd(BPMul(GoldenPolynomial, quo), rem) = Pmn_poly
  /\ pc \notin Thm4Section => reconstructed = P34_poly
  /\ Passed("Reconstruction: (t^2-t-1)*q(t) + (t-1) = P_{3,4}(t)")

\* The last division of Theorem 6, of P_{7,8}(t) of degree 56, is done.
C4_Witness ==
  /\ pc = "thm6_norm" /\ m = 7 /\ n = 8
  /\ Len(Pmn_poly) = 57
  /\ Len(quo) = 55
  /\ Len(rem) = 2

\* C5: the coefficients of P_{3,4}(t), highest degree first, are
\* [1,0,0,-3,-2,0,2,-1,-3,-1,0,1,-1]: 13 coefficients, degree 12 = 3*4.
C5_Coefficients ==
  pc # "thm4_resultant" =>
    /\ P34_poly = P(3, 4)
    /\ all_coeffs(P34_poly) = FromInts(<<1, 0, 0, -3, -2, 0, 2, -1, -3, -1, 0, 1, -1>>)
    /\ Len(all_coeffs(P34_poly)) = 13
    /\ Len(P34_poly) - 1 = 3 * 4
    /\ Passed("P_{3,4}(t) coefficients match eq. (11)")

\* The resultant of Theorem 4 is computed and its coefficient check has been passed.
C5_Witness ==
  /\ pc = "thm4_div"
  /\ Len(P34_poly) = 13
  /\ LinesOf("P_{3,4}(t) coefficients match eq. (11)") # {}

\* C9: P_{3,4}(1) = -7 and P_{3,4}(-1) = 1, and P_at_1 and P_at_neg1, which
\* the two checks of Proposition 3 compare, are these values of P_{3,4}.
C9_RationalRoots ==
  pc \notin (Thm4Section \cup {"prop3_eval"}) =>
    /\ Eval(P34_poly, FromInt(1)) = FromInt(-7)
    /\ Eval(P34_poly, FromInt(-1)) = FromInt(1)
    /\ P_at_1 = Eval(P34_poly, FromInt(1))
    /\ P_at_neg1 = Eval(P34_poly, FromInt(-1))
    /\ Passed("P_{3,4}(1) = -7 (not zero)")
    /\ Passed("P_{3,4}(-1) = 1 (not zero)")

\* P_at_1 and P_at_neg1 are computed and their two checks have been passed.
C9_Witness ==
  /\ pc = "prop3_roots"
  /\ P_at_1 = FromInt(-7)
  /\ P_at_neg1 = FromInt(1)
  /\ LinesOf("P_{3,4}(-1) = 1 (not zero)") # {}

\* The 29 calls of check in the order of the script: 5 of Theorem 4, 3 of
\* Proposition 3, 11 of Theorem 2, 5 of Theorem 6 and 5 of Corollary 8.
ExpectedChecks ==
  <<<<"P_{3,4}(t) coefficients match eq. (11)", 0>>,
    <<"Remainder = t - 1", 0>>,
    <<"Quotient = t^10 + t^9 + 2t^8 + 2t^4 + t^3", 0>>,
    <<"N_phi(t - 1) = -1", 0>>,
    <<"Reconstruction: (t^2-t-1)*q(t) + (t-1) = P_{3,4}(t)", 0>>,
    <<"P_{3,4}(1) = -7 (not zero)", 0>>,
    <<"P_{3,4}(-1) = 1 (not zero)", 0>>,
    <<"|P_{3,4}(rho*r4)| < 10^-45", 0>>>>
  \o [i \in 1..11 |-> <<"n: a b N = (-1)^(n+1)*L_(2n-1)", i + 2>>]
  \o <<<<"(3,4) has norm -1", 0>>,
       <<"(3,4) is the ONLY unit norm", 0>>,
       <<"Minimum non-unit |norm| = 11 at (2,3)", 0>>,
       <<"|N(P_{2,3})| = 11 = L_5", 0>>,
       <<"All (m,n) != (3,4) have |norm| >= 11", 0>>,
       <<"h2 - (h3 + h4) = % of h2 (expect ~0.115%)", 0>>>>
  \o [i \in 1..4 |-> <<"n: hn-(hn1+hn2) = (% of hn, expect > 25%)", i + 2>>]

\* C6: a failure is recorded where it is found and raised only at the end:
\* whichever conditions are false, the same 29 calls of check happen in the
\* same order, and AssertionError is raised only after the last of them and
\* after the final tally line.
C6_FailuresDeferred ==
  /\ Len(ExpectedChecks) = 29
  /\ Len(CheckLines) <= 29
  /\ \A i \in 1..Len(CheckLines) : CheckLines[i].name = ExpectedChecks[i]
  /\ pc \in {"summary", "tally", "exit", "done"} => Len(CheckLines) = 29
  /\ pc # "done" => exit.status = "running"
  /\ exit.status = "AssertionError" =>
       /\ Len(CheckLines) = 29
       /\ stdout[Len(stdout) - 1].kind = "tally"

\* The first check failed, the 28 after it ran all the same, and the script
\* then raised.
C6_Witness ==
  /\ pc = "done"
  /\ exit.status = "AssertionError"
  /\ Len(CheckLines) = 29
  /\ ~CheckLines[1].passed
  /\ \A i \in 2..29 : CheckLines[i].passed

\* The number of the checks run that failed, from the lines printed.
FailedChecks == Cardinality({i \in 1..Len(stdout) : IsCheck(stdout[i]) /\ ~stdout[i].passed})

\* C7: the script raises AssertionError if and only if at least one check
\* failed, with a message that carries the number of the failed checks;
\* otherwise it ends normally and the tally line reads "ALL <PASS> CHECKS
\* PASSED"; the tally line and the way the script ends agree.
C7_ExitBehaviour ==
  /\ pc # "done" => exit.status = "running"
  /\ pc = "done" =>
       /\ stdout[Len(stdout) - 1].kind = "tally"
       /\ FAIL = FailedChecks
       /\ exit.status = "AssertionError" <=> FailedChecks > 0
       /\ FailedChecks > 0 =>
            /\ exit.message = ToString(FailedChecks) \o " checks failed"
            /\ stdout[Len(stdout) - 1].text =
                 ToString(FailedChecks) \o " CHECKS FAILED out of "
                   \o ToString(Len(CheckLines))
       /\ FailedChecks = 0 =>
            /\ exit.status = "normal"
            /\ PASS = Len(CheckLines)
            /\ stdout[Len(stdout) - 1].text = "ALL " \o ToString(PASS) \o " CHECKS PASSED"

\* Two of the checks failed and the script has raised, saying so.
C7_Witness ==
  /\ pc = "done"
  /\ FailedChecks = 2
  /\ exit = [status |-> "AssertionError", message |-> "2 checks failed"]
  /\ stdout[Len(stdout) - 1].text = "2 CHECKS FAILED out of 29"

\* The counters are the numbers of the check lines printed with each outcome.
TallyCounts ==
  /\ PASS = Cardinality({i \in 1..Len(stdout) : IsCheck(stdout[i]) /\ stdout[i].passed})
  /\ FAIL = FailedChecks
  /\ PASS + FAIL = Len(CheckLines)

\* A step that calls check, told by the check line it prints, adds 1 to PASS
\* and nothing to FAIL if its condition is true, 1 to FAIL and nothing to PASS
\* if it is false; any other step leaves both counters as they are.
TallyStep ==
  IF Len(CheckLines') = Len(CheckLines) + 1
  THEN IF CheckLines'[Len(CheckLines')].passed
       THEN PASS' = PASS + 1 /\ FAIL' = FAIL
       ELSE FAIL' = FAIL + 1 /\ PASS' = PASS
  ELSE CheckLines' = CheckLines /\ PASS' = PASS /\ FAIL' = FAIL

\* C10: the tally starts at (0, 0) and only check writes it: each call adds 1
\* to exactly one counter, PASS for a true condition and FAIL for a false one,
\* so that after k calls PASS + FAIL = k, PASS is the number of calls with a
\* true condition, and neither counter ever decreases.
C10_TallyInvariant ==
  /\ PASS = 0 /\ FAIL = 0
  /\ []TallyCounts
  /\ [][TallyStep]_vars
  /\ [][PASS' >= PASS /\ FAIL' >= FAIL]_vars

\* Calls of both outcomes have been counted: the check of n = 9 of Theorem 2
\* failed, the 14 before it and the 14 after it passed.
C10_Witness ==
  /\ pc = "done"
  /\ PASS = 28 /\ FAIL = 1
  /\ ~CheckLines[15].passed
  /\ CheckLines[15].name[2] = 9

====
